---- MODULE Spec2Model ----
(***************************************************************************)
(* Model of the Faucet contract of src/lib.rs (ink! contract `fungibles`). *)
(*                                                                         *)
(* The storage struct Faucet is the variables active, cooldown,            *)
(* drip_amount, owner and last_request_of.  The host environment the       *)
(* contract reads through self.env() is the variables balance (the         *)
(* contract account's free balance) and block_number.  transfers and       *)
(* events are what env().transfer and env().emit_event have done so far:   *)
(* how many took effect, and the last one.  result records the message     *)
(* that was dispatched last and what it returned.  dripped and drips_ok    *)
(* are history variables: per account the block of its most recent drip()  *)
(* that returned Ok, and the number of drip() calls that returned Ok.      *)
(*                                                                         *)
(* Every message is one atomic step: the host runs a call to completion    *)
(* before the next one, and a message that returns Err (or panics) is      *)
(* rolled back by the host as a whole.                                     *)
(***************************************************************************)
EXTENDS Integers, Sequences, FiniteSets

VARIABLES active, cooldown, drip_amount, owner, last_request_of,
          balance, block_number, transfers, events, result, dripped,
          drips_ok

storage == <<active, cooldown, drip_amount, owner, last_request_of>>
env     == <<balance, block_number, transfers, events>>
vars    == <<active, cooldown, drip_amount, owner, last_request_of,
             balance, block_number, transfers, events, result, dripped,
             drips_ok>>
history == <<dripped, drips_ok>>

----------------------------------------------------------------------------
(* Bounds of the model.                                                    *)

\* BlockNumber is u32 and Balance is u128 in the contract; the model keeps
\* the same saturating arithmetic over narrower unsigned types whose largest
\* values are these.
BlockNumberMAX == 10
BalanceMAX == 1002

\* Number of successful drips that are followed.
MaxDrips == 2

Accounts == {"alice", "bob"}

\* Arguments tried for new / set_cooldown and for new / set_drip_amount.
CooldownArgs == {0, 10}
AmountArgs == {0, 100, 1000, BalanceMAX}

\* Value attached to the payable constructor, and value of a later plain
\* transfer into the contract account.
Endowments == {1, 1000}
FundArgs == {BalanceMAX - 1}

\* Blocks the chain produces between two calls that reach the contract.
BlockSteps == {5}

----------------------------------------------------------------------------
(* Option<T>: None is the empty set, Some(x) the singleton.                *)

None == {}
Some(x) == {x}
unwrap(o) == CHOOSE x \in o : TRUE

Ok == "Ok"

\* u32::saturating_add / u128::saturating_add, max the type's MAX.
wrapping_add(a, b, max) == (a + b) % (max + 1)

saturating_add(a, b, max) == IF a + b > max THEN max ELSE a + b

----------------------------------------------------------------------------
(* Mapping<AccountId, BlockNumber>.  try_get and try_insert fail when the  *)
(* encoded key, or key plus value, does not fit the static buffer.  The    *)
(* sizes are those of ink's default environment: a 32-byte AccountId, a    *)
(* u32 BlockNumber and a 16 KiB buffer, so neither call fails for this     *)
(* mapping; the Err arms of the contract are kept as the code has them.    *)

BUFFER_SIZE == 16384
AccountIdEncodedSize == 32
BlockNumberEncodedSize == 4

fits_buffer(key_size, value_size) ==
    /\ key_size <= BUFFER_SIZE
    /\ key_size + value_size <= BUFFER_SIZE

\* None | Some(Ok(v)) | Some(Err(_)), as records
try_get(map, key) ==
    IF map[key] = None THEN [some |-> FALSE, ok |-> TRUE, value |-> 0]
    ELSE IF ~fits_buffer(AccountIdEncodedSize, BlockNumberEncodedSize)
         THEN [some |-> TRUE, ok |-> FALSE, value |-> 0]
         ELSE [some |-> TRUE, ok |-> TRUE, value |-> unwrap(map[key])]

\* the mapping after the insert
insert_wrong_key(map, key, value) ==
    [a \in Accounts |-> IF a = key THEN map[a] ELSE Some(value)]

insert_nothing(map, key, value) == map

insert(map, key, value) == [map EXCEPT ![key] = Some(value)]

try_insert_ok(key, value) ==
    fits_buffer(AccountIdEncodedSize, BlockNumberEncodedSize)

\* Mapping::get of the accessor
get(map, key) == map[key]

----------------------------------------------------------------------------
(* Guards                                                                  *)

ensure_active_always(act) == Ok

ensure_active(act) == IF ~act THEN "NotActive" ELSE Ok

ensure_owner_any_some(own, caller) ==
    IF own = None THEN "NotOwner" ELSE Ok

ensure_owner_unowned_open(own, caller) ==
    IF own # None /\ own # Some(caller) THEN "NotOwner" ELSE Ok

ensure_owner(own, caller) ==
    IF own # Some(caller) THEN "NotOwner" ELSE Ok

can_request_strict(map, cd, current_block, caller) ==
    LET last_request_result == try_get(map, caller) IN
    IF ~last_request_result.some THEN Ok
    ELSE IF ~last_request_result.ok THEN "ValueTooLarge"
    ELSE IF saturating_add(last_request_result.value, cd, BlockNumberMAX)
              >= current_block
         THEN "InCoolDown"
         ELSE Ok

\* the wait is the one of construction, not the stored cooldown
can_request_fixed_wait(map, cd, current_block, caller) ==
    LET last_request_result == try_get(map, caller) IN
    IF ~last_request_result.some THEN Ok
    ELSE IF ~last_request_result.ok THEN "ValueTooLarge"
    ELSE IF saturating_add(last_request_result.value, 10, BlockNumberMAX)
              > current_block
         THEN "InCoolDown"
         ELSE Ok

\* checked_add in place of saturating_add: an overflowing sum is taken
\* as not yet reached
can_request_checked_add(map, cd, current_block, caller) ==
    LET last_request_result == try_get(map, caller) IN
    IF ~last_request_result.some THEN Ok
    ELSE IF ~last_request_result.ok THEN "ValueTooLarge"
    ELSE IF \/ last_request_result.value + cd > BlockNumberMAX
            \/ last_request_result.value + cd > current_block
         THEN "InCoolDown"
         ELSE Ok

can_request(map, cd, current_block, caller) ==
    LET last_request_result == try_get(map, caller) IN
    IF ~last_request_result.some THEN Ok
    ELSE IF ~last_request_result.ok THEN "ValueTooLarge"
    ELSE IF saturating_add(last_request_result.value, cd, BlockNumberMAX)
              > current_block
         THEN "InCoolDown"
         ELSE Ok

can_withdraw_gt(amount, bal) ==
    IF saturating_add(amount, 1, BalanceMAX) > bal
    THEN "NotEnoughFunds" ELSE Ok

can_withdraw_no_reserve(amount, bal) ==
    IF amount > bal THEN "NotEnoughFunds" ELSE Ok

can_withdraw_wrapping(amount, bal) ==
    IF wrapping_add(amount, 1, BalanceMAX) >= bal
    THEN "NotEnoughFunds" ELSE Ok

can_withdraw(amount, bal) ==
    IF saturating_add(amount, 1, BalanceMAX) >= bal
    THEN "NotEnoughFunds" ELSE Ok

\* The three `?` lines that open drip: the first Err is returned.
drip_checks_request_first(act, amount, bal, map, cd, current_block, caller) ==
    IF ensure_active(act) # Ok THEN ensure_active(act)
    ELSE IF can_request(map, cd, current_block, caller) # Ok
         THEN can_request(map, cd, current_block, caller)
    ELSE can_withdraw(amount, bal)

drip_checks(act, amount, bal, map, cd, current_block, caller) ==
    IF ensure_active(act) # Ok THEN ensure_active(act)
    ELSE IF can_withdraw(amount, bal) # Ok THEN can_withdraw(amount, bal)
    ELSE can_request(map, cd, current_block, caller)

----------------------------------------------------------------------------
(* Environment calls of drip                                               *)

\* env().transfer(dest, value) fails when the contract cannot pay value.
transfer_ok(bal, value) == value <= bal

\* the transfers after one more of value to dest
transfer_less_fee(log, dest, value) ==
    [count |-> log.count + 1,
     last |-> Some([value |-> IF value > 0 THEN value - 1 ELSE 0,
                    to |-> dest])]

transfer(log, dest, value) ==
    [count |-> log.count + 1, last |-> Some([value |-> value, to |-> dest])]

\* the notifications after one more Drip { value, to }
emit_event_twice(log, value, to) ==
    [count |-> log.count + 2, last |-> Some([value |-> value, to |-> to])]

emit_event(log, value, to) ==
    [count |-> log.count + 1, last |-> Some([value |-> value, to |-> to])]

NoLog == [count |-> 0, last |-> None]

\* caller of a step that has none, or whose caller is not read
NoCaller == "-"

\* val: what an accessor returned, the arguments of a call that returned
\* Ok, or the value of active a successful start_stop found
Returned(op, caller, ret, val) ==
    [op |-> op, caller |-> caller, ret |-> ret, val |-> val]

----------------------------------------------------------------------------
(* Construction                                                            *)

new_started(caller, cd, amount, endowment) ==
    /\ active = TRUE
    /\ cooldown = cd
    /\ drip_amount = amount
    /\ owner = Some(caller)
    /\ last_request_of = [a \in Accounts |-> None]
    /\ balance = endowment
    /\ block_number = 0
    /\ transfers = NoLog
    /\ events = NoLog
    /\ result = Returned("new", caller, Ok, Some(<<cd, amount>>))
    /\ dripped = [a \in Accounts |-> None]
    /\ drips_ok = 0

new(caller, cd, amount, endowment) ==
    /\ active = FALSE
    /\ cooldown = cd
    /\ drip_amount = amount
    /\ owner = Some(caller)
    /\ last_request_of = [a \in Accounts |-> None]
    /\ balance = endowment
    /\ block_number = 0
    /\ transfers = NoLog
    /\ events = NoLog
    /\ result = Returned("new", caller, Ok, Some(<<cd, amount>>))
    /\ dripped = [a \in Accounts |-> None]
    /\ drips_ok = 0

Init ==
    \E caller \in Accounts, cd \in CooldownArgs, amount \in AmountArgs,
       endowment \in Endowments :
        new(caller, cd, amount, endowment)

----------------------------------------------------------------------------
(* Messages.  A message that returns Err leaves storage, balance and logs  *)
(* as they were before the call.                                           *)

Reverted(op, caller, ret) ==
    /\ result' = Returned(op, caller, ret, None)
    /\ UNCHANGED <<storage, env, history>>

drip(caller) ==
    LET check == drip_checks(active, drip_amount, balance, last_request_of,
                             cooldown, block_number, caller)
    IN
    IF check # Ok
    THEN Reverted("drip", caller, check)
    ELSE IF ~transfer_ok(balance, drip_amount)
    THEN \* .expect(..) panics, the call traps
         Reverted("drip", caller, "Trap")
    ELSE IF ~try_insert_ok(caller, block_number)
    THEN \* the Err return rolls the transfer back
         Reverted("drip", caller, "ValueTooLarge")
    ELSE /\ transfers.count < MaxDrips
         /\ balance' = balance - drip_amount
         /\ transfers' = transfer(transfers, caller, drip_amount)
         /\ last_request_of' = insert(last_request_of, caller, block_number)
         /\ events' = emit_event(events, drip_amount, caller)
         /\ result' = Returned("drip", caller, Ok, None)
         /\ dripped' = [dripped EXCEPT ![caller] = Some(block_number)]
         /\ drips_ok' = drips_ok + 1
         /\ UNCHANGED <<active, cooldown, drip_amount, owner, block_number>>

set_cooldown(caller, new_cooldown) ==
    IF ensure_owner(owner, caller) # Ok
    THEN Reverted("set_cooldown", caller, ensure_owner(owner, caller))
    ELSE /\ cooldown' = new_cooldown
         /\ result' = Returned("set_cooldown", caller, Ok, Some(new_cooldown))
         /\ UNCHANGED <<active, drip_amount, owner, last_request_of,
                        env, history>>

start_stop_only_starts(caller) ==
    IF ensure_owner(owner, caller) # Ok
    THEN Reverted("start_stop", caller, ensure_owner(owner, caller))
    ELSE /\ active' = TRUE
         /\ result' = Returned("start_stop", caller, Ok, Some(active))
         /\ UNCHANGED <<cooldown, drip_amount, owner, last_request_of,
                        env, history>>

start_stop(caller) ==
    IF ensure_owner(owner, caller) # Ok
    THEN Reverted("start_stop", caller, ensure_owner(owner, caller))
    ELSE /\ active' = ~active
         /\ result' = Returned("start_stop", caller, Ok, Some(active))
         /\ UNCHANGED <<cooldown, drip_amount, owner, last_request_of,
                        env, history>>

remove_ownership_keeps(caller) ==
    IF ensure_owner(owner, caller) # Ok
    THEN Reverted("remove_ownership", caller, ensure_owner(owner, caller))
    ELSE /\ result' = Returned("remove_ownership", caller, Ok, None)
         /\ UNCHANGED <<storage, env, history>>

remove_ownership(caller) ==
    IF ensure_owner(owner, caller) # Ok
    THEN Reverted("remove_ownership", caller, ensure_owner(owner, caller))
    ELSE /\ owner' = None
         /\ result' = Returned("remove_ownership", caller, Ok, None)
         /\ UNCHANGED <<active, cooldown, drip_amount, last_request_of,
                        env, history>>

set_drip_amount_sets_cooldown(caller, new_amount) ==
    IF ensure_owner(owner, caller) # Ok
    THEN Reverted("set_drip_amount", caller, ensure_owner(owner, caller))
    ELSE /\ cooldown' = new_amount
         /\ result' = Returned("set_drip_amount", caller, Ok,
                                Some(new_amount))
         /\ UNCHANGED <<active, drip_amount, owner, last_request_of,
                        env, history>>

set_drip_amount(caller, new_amount) ==
    IF ensure_owner(owner, caller) # Ok
    THEN Reverted("set_drip_amount", caller, ensure_owner(owner, caller))
    ELSE /\ drip_amount' = new_amount
         /\ result' = Returned("set_drip_amount", caller, Ok,
                                Some(new_amount))
         /\ UNCHANGED <<active, cooldown, owner, last_request_of,
                        env, history>>

transfer_ownership_keeps(caller, new_owner) ==
    IF ensure_owner(owner, caller) # Ok
    THEN Reverted("transfer_ownership", caller, ensure_owner(owner, caller))
    ELSE /\ result' = Returned("transfer_ownership", caller, Ok,
                                Some(new_owner))
         /\ UNCHANGED <<storage, env, history>>

transfer_ownership(caller, new_owner) ==
    IF ensure_owner(owner, caller) # Ok
    THEN Reverted("transfer_ownership", caller, ensure_owner(owner, caller))
    ELSE /\ owner' = Some(new_owner)
         /\ result' = Returned("transfer_ownership", caller, Ok,
                                Some(new_owner))
         /\ UNCHANGED <<active, cooldown, drip_amount, last_request_of,
                        env, history>>

----------------------------------------------------------------------------
(* Read-only messages                                                      *)

\* cooldown, drip_amount, is_active and owner do not read env().caller()
get_cooldown ==
    /\ result' = Returned("cooldown", NoCaller, Ok, Some(cooldown))
    /\ UNCHANGED <<storage, env, history>>

get_drip_amount ==
    /\ result' = Returned("drip_amount", NoCaller, Ok, Some(drip_amount))
    /\ UNCHANGED <<storage, env, history>>

is_active ==
    /\ result' = Returned("is_active", NoCaller, Ok, Some(active))
    /\ UNCHANGED <<storage, env, history>>

get_owner ==
    /\ result' = Returned("owner", NoCaller, Ok, Some(owner))
    /\ UNCHANGED <<storage, env, history>>

get_last_request_of(caller) ==
    /\ result' = Returned("last_request_of", caller, Ok,
                          Some(get(last_request_of, caller)))
    /\ UNCHANGED <<storage, env, history>>

----------------------------------------------------------------------------
(* Host environment between calls                                          *)

\* the chain produces the next blocks, as long as block numbers last
next_block(n) ==
    /\ block_number < BlockNumberMAX
    /\ block_number' = IF block_number + n > BlockNumberMAX
                       THEN BlockNumberMAX
                       ELSE block_number + n
    /\ result' = Returned("next_block", NoCaller, Ok, None)
    /\ UNCHANGED <<storage, balance, transfers, events, history>>

\* somebody pays value into the contract account
fund(value) ==
    /\ balance + value <= BalanceMAX
    /\ balance' = balance + value
    /\ result' = Returned("fund", NoCaller, Ok, None)
    /\ UNCHANGED <<storage, block_number, transfers, events, history>>

----------------------------------------------------------------------------

Next ==
    \/ \E caller \in Accounts : drip(caller)
    \/ \E caller \in Accounts, n \in CooldownArgs : set_cooldown(caller, n)
    \/ \E caller \in Accounts : start_stop(caller)
    \/ \E caller \in Accounts : remove_ownership(caller)
    \/ \E caller \in Accounts, n \in AmountArgs : set_drip_amount(caller, n)
    \/ \E caller \in Accounts, new_owner \in Accounts :
           transfer_ownership(caller, new_owner)
    \/ get_cooldown
    \/ get_drip_amount
    \/ is_active
    \/ \E caller \in Accounts : get_last_request_of(caller)
    \/ get_owner
    \/ \E n \in BlockSteps : next_block(n)
    \/ \E value \in FundArgs : fund(value)

Spec == Init /\ [][Next]_vars

\* The calls that write storage, and the environment.  The accessors are
\* left out: they write nothing but the return value.
NextWrites ==
    \/ \E caller \in Accounts : drip(caller)
    \/ \E caller \in Accounts : \E new_cooldown \in CooldownArgs :
            set_cooldown(caller, new_cooldown)
    \/ \E caller \in Accounts : start_stop(caller)
    \/ \E caller \in Accounts : remove_ownership(caller)
    \/ \E caller \in Accounts : \E new_amount \in AmountArgs :
            set_drip_amount(caller, new_amount)
    \/ \E caller \in Accounts : \E new_owner \in Accounts :
            transfer_ownership(caller, new_owner)
    \/ \E n \in BlockSteps : next_block(n)
    \/ \E value \in FundArgs : fund(value)

\* The chain keeps producing blocks.
SpecFair ==
    Init /\ [][NextWrites]_vars /\ WF_vars(\E n \in BlockSteps : next_block(n))

----------------------------------------------------------------------------
(* Vocabulary of the properties.  A step of Next is the call result' names: *)
(* every action sets result to the call it made.                           *)

OwnerGated == {"set_cooldown", "start_stop", "remove_ownership",
               "set_drip_amount", "transfer_ownership"}

DripBy(a) == result'.op = "drip" /\ result'.caller = a

\* drip_amount + 1, clamped at the largest balance
AmountPlusOne ==
    IF drip_amount + 1 > BalanceMAX THEN BalanceMAX ELSE drip_amount + 1

\* block from which an account that dripped at block b may drip again
ReadyAt(b) ==
    IF b + cooldown > BlockNumberMAX THEN BlockNumberMAX ELSE b + cooldown

NothingHappened == UNCHANGED <<storage, env, history>>

\* C1: a drip() made while active is false returns NotActive, whoever calls
\* and whatever cooldown, balance, last_request_of and owner are; nothing
\* is transferred, no last_request_of entry is written, no Drip is emitted.
C1_InactiveDripNotActive ==
    [][\A a \in Accounts :
          (DripBy(a) /\ ~active) =>
              (result'.ret = "NotActive" /\ NothingHappened)]_vars

\* an inactive, funded, ownerless faucet refused an account that has a
\* last_request_of entry
C1_Witness ==
    /\ result.op = "drip" /\ result.ret = "NotActive"
    /\ ~active /\ owner = None
    /\ last_request_of[result.caller] # None
    /\ AmountPlusOne < balance

\* C2: after a successful drip() by a at block b, a's next drip() attempt,
\* the faucet being active and funded, returns InCoolDown at a block below
\* b + cooldown, and succeeds at a block from b + cooldown on.  b + cooldown
\* is the sum of the cooldown check, which stops at the largest block number.
C2_CooldownWindow ==
    [][\A a \in Accounts :
          (DripBy(a) /\ dripped[a] # None /\ active
                /\ AmountPlusOne < balance) =>
              IF block_number < ReadyAt(unwrap(dripped[a]))
              THEN result'.ret = "InCoolDown" /\ NothingHappened
              ELSE /\ result'.ret = Ok
                   /\ dripped'[a] = Some(block_number)
                   /\ balance' = balance - drip_amount]_vars

\* the only account that ever dripped has dripped a second time, the
\* cooldown being over
C2_Witness ==
    /\ result.op = "drip" /\ result.ret = Ok
    /\ drips_ok = 2 /\ cooldown > 0
    /\ dripped[result.caller] = Some(block_number)
    /\ \A a \in Accounts \ {result.caller} : dripped[a] = None

\* C3 as stated: wherever drip_amount + 1 >= balance, drip() returns
\* NotEnoughFunds, and wherever drip_amount + 1 < balance it does not.
C3_Original ==
    [][\A a \in Accounts :
          DripBy(a) =>
              IF AmountPlusOne >= balance
              THEN result'.ret = "NotEnoughFunds"
              ELSE result'.ret # "NotEnoughFunds"]_vars

\* C3, amended: on an active faucet, drip() returns NotEnoughFunds and does
\* nothing wherever drip_amount + 1 >= balance (so with drip_amount 1000
\* and balance 1000), and does not return NotEnoughFunds wherever
\* drip_amount + 1 < balance.
C3_ActiveUnderfunded ==
    [][\A a \in Accounts :
          (DripBy(a) /\ active) =>
              IF AmountPlusOne >= balance
              THEN result'.ret = "NotEnoughFunds" /\ NothingHappened
              ELSE result'.ret # "NotEnoughFunds"]_vars

\* the faucet created with drip_amount 1000 and funded with 1000, started,
\* has refused a drip
C3_Witness ==
    /\ result.op = "drip" /\ result.ret = "NotEnoughFunds"
    /\ active /\ drip_amount = 1000 /\ balance = 1000
    /\ drips_ok = 0

\* C4: the state a successful drip() leaves has a contract balance of at
\* least 1, whatever drip_amount is: the last unit is never paid out.
C4_ReserveKept ==
    (result.op = "drip" /\ result.ret = Ok) => balance >= 1

\* a drip has paid out all of the balance it may pay
C4_Witness ==
    /\ result.op = "drip" /\ result.ret = Ok
    /\ drip_amount > 0 /\ balance = 2

\* C5: a successful remove_ownership() leaves owner None; from then on owner
\* stays None and every owner-gated call, by any caller, returns NotOwner.
C5_OwnerlessForGood ==
    [][/\ (result'.op = "remove_ownership" /\ result'.ret = Ok)
              => owner' = None
       /\ owner = None =>
              /\ owner' = None
              /\ result'.op \in OwnerGated => result'.ret = "NotOwner"]_vars

\* ownership was removed and a later transfer_ownership call was refused
C5_Witness ==
    /\ owner = None
    /\ result.op = "transfer_ownership" /\ result.ret = "NotOwner"

\* C6: an owner-gated call whose caller is not the current owner returns
\* NotOwner and changes neither the storage nor the contract balance.
C6_NotOwnerRejected ==
    [][\A a \in Accounts :
          (result'.op \in OwnerGated /\ result'.caller = a
                /\ owner # Some(a)) =>
              (result'.ret = "NotOwner" /\ NothingHappened)]_vars

\* set_cooldown by an account that is not the owner of an owned faucet
C6_Witness ==
    /\ result.op = "set_cooldown" /\ result.ret = "NotOwner"
    /\ owner # None /\ owner # Some(result.caller)

\* C7: the number of Drip notifications is the number of drip() calls that
\* returned Ok: such a call emits one Drip { value: drip_amount, to: caller }
\* and no other step emits any.
C7_OneDripPerSuccess ==
    [][/\ events'.count = drips_ok'
       /\ IF result'.op = "drip" /\ result'.ret = Ok
          THEN events' = [count |-> events.count + 1,
                          last |-> Some([value |-> drip_amount,
                                         to |-> result'.caller])]
          ELSE events' = events]_vars

\* the second successful drip has emitted the second Drip
C7_Witness ==
    /\ result.op = "drip" /\ result.ret = Ok
    /\ events.count = 2 /\ drips_ok = 2
    /\ events.last = Some([value |-> drip_amount, to |-> result.caller])

\* C8: a mutating message either returns Ok with its effects in place (for
\* drip: the transfer, the last_request_of write and the Drip) or returns
\* an error with nothing changed; no transfer leaves the recipient's
\* last_request_of entry other than the current block.
C8_Atomic ==
    [][/\ (result'.op \in OwnerGated \cup {"drip"} /\ result'.ret # Ok)
              => NothingHappened
       /\ \A a \in Accounts :
              (DripBy(a) /\ result'.ret = Ok) =>
                  /\ balance' = balance - drip_amount
                  /\ transfers' = [count |-> transfers.count + 1,
                                   last |-> Some([value |-> drip_amount,
                                                  to |-> a])]
                  /\ last_request_of'[a] = Some(block_number)
                  /\ events'.count = events.count + 1
       /\ (result'.op = "start_stop" /\ result'.ret = Ok)
              => active' = ~active
       /\ (result'.op = "transfer_ownership" /\ result'.ret = Ok)
              => owner' # None
       /\ transfers' # transfers =>
              /\ result'.op = "drip" /\ result'.ret = Ok
              /\ last_request_of'[unwrap(transfers'.last).to]
                     = Some(block_number)]_vars

\* a drip was paid to an account whose entry held an earlier block
C8_Witness ==
    /\ result.op = "drip" /\ result.ret = Ok
    /\ transfers.count = 2 /\ block_number > 0
    /\ transfers.last = Some([value |-> drip_amount, to |-> result.caller])
    /\ last_request_of[result.caller] = Some(block_number)

\* C9: drip() returns the error of the first failing guard in the order
\* ensure_active, can_withdraw, can_request: NotActive when inactive, even
\* if underfunded or in cooldown; NotEnoughFunds when active and
\* underfunded, even if the caller is in cooldown.
C9_GuardOrder ==
    [][\A a \in Accounts :
          DripBy(a) =>
              LET underfunded == AmountPlusOne >= balance
                  cooling == /\ last_request_of[a] # None
                             /\ block_number
                                  < ReadyAt(unwrap(last_request_of[a]))
              IN /\ (~active /\ (underfunded \/ cooling))
                        => result'.ret = "NotActive"
                 /\ (active /\ underfunded /\ cooling)
                        => result'.ret = "NotEnoughFunds"
                 /\ (active /\ ~underfunded /\ cooling)
                        => result'.ret = "InCoolDown"]_vars

\* an active, underfunded faucet refused a caller who is in cooldown
C9_Witness ==
    /\ result.op = "drip" /\ result.ret = "NotEnoughFunds"
    /\ active /\ AmountPlusOne >= balance
    /\ last_request_of[result.caller] # None
    /\ block_number < ReadyAt(unwrap(last_request_of[result.caller]))

\* C10: last_request_of[a] is absent while a has not dripped successfully
\* and otherwise the block of a's most recent successful drip(); an entry
\* changes only in a successful drip() of its own account.
C10_LastRequestIsLastDrip ==
    [][/\ \A a \in Accounts : last_request_of'[a] = dripped'[a]
       /\ \A a \in Accounts :
              last_request_of'[a] # last_request_of[a] =>
                  /\ DripBy(a) /\ result'.ret = Ok
                  /\ last_request_of'[a] = Some(block_number)]_vars

\* both accounts have dripped, at different blocks, and one has no entry
\* of the block the other dripped at
C10_Witness ==
    /\ result.op = "drip" /\ result.ret = Ok
    /\ \A a \in Accounts : last_request_of[a] # None
    /\ \E a \in Accounts :
           /\ a # result.caller
           /\ last_request_of[a] # last_request_of[result.caller]

\* C11: a successful drip() by a at block b takes exactly drip_amount off
\* the contract balance, pays a that amount and makes last_request_of()
\* return Some(b) to a.  With cooldown 10, drip_amount 100 and balance 1000:
\* the drip at block 0 leaves 900 and Some(0), the one at block 5 returns
\* InCoolDown with 900 left, the one at block 10 succeeds and leaves 800.
C11_DripEffect ==
    [][\A a \in Accounts :
          /\ (DripBy(a) /\ result'.ret = Ok) =>
                 /\ balance' = balance - drip_amount
                 /\ transfers'.count = transfers.count + 1
                 /\ transfers'.last = Some([value |-> drip_amount, to |-> a])
                 /\ get(last_request_of', a) = Some(block_number)
          /\ (result'.op = "last_request_of" /\ result'.caller = a) =>
                 result'.val = Some(dripped[a])
          /\ (DripBy(a) /\ active /\ cooldown = 10 /\ drip_amount = 100) =>
                 /\ (balance = 1000 /\ block_number = 0
                            /\ dripped[a] = None) =>
                        /\ result'.ret = Ok /\ balance' = 900
                        /\ last_request_of'[a] = Some(0)
                 /\ (balance = 900 /\ block_number = 5
                            /\ dripped[a] = Some(0)) =>
                        result'.ret = "InCoolDown" /\ balance' = 900
                 /\ (balance = 900 /\ block_number = 10
                            /\ dripped[a] = Some(0)) =>
                        result'.ret = Ok /\ balance' = 800]_vars

\* the end of the example: the second drip of the same account, at block 10
C11_Witness ==
    /\ result.op = "drip" /\ result.ret = Ok
    /\ cooldown = 10 /\ drip_amount = 100 /\ balance = 800
    /\ block_number = 10 /\ drips_ok = 2
    /\ last_request_of[result.caller] = Some(10)
    /\ transfers.last = Some([value |-> 100, to |-> result.caller])
    /\ \A a \in Accounts \ {result.caller} : dripped[a] = None

\* C12: right after new(cooldown, drip_amount) by c, owner is Some(c),
\* active is false, cooldown and drip_amount are the arguments and no
\* account has a last_request_of entry; active becomes true only in a
\* start_stop() of the owner and no drip() succeeds while it is false.
C12_NewFaucet ==
    /\ result.op = "new"
    /\ owner = Some(result.caller)
    /\ ~active
    /\ result.val = Some(<<cooldown, drip_amount>>)
    /\ \A a \in Accounts : last_request_of[a] = None
    /\ drips_ok = 0 /\ transfers.count = 0
    /\ [][/\ (~active /\ active') =>
                 /\ result'.op = "start_stop" /\ result'.ret = Ok
                 /\ owner = Some(result'.caller)
          /\ (result'.op = "drip" /\ result'.ret = Ok) => active]_vars

\* a faucet made with cooldown 0 and drip_amount 0 has refused its first
\* drip, the owner not having started it
C12_Witness ==
    /\ result.op = "drip" /\ result.ret = "NotActive"
    /\ cooldown = 0 /\ drip_amount = 0 /\ balance = 1000
    /\ drips_ok = 0 /\ block_number = 0
    /\ \A a \in Accounts : last_request_of[a] = None

\* C13: the cooldown check adds with saturation.  For an account whose
\* recorded last drip plus cooldown exceeds the largest block number,
\* can_request answers InCoolDown at every block below the largest, and no
\* drip() of the account succeeds there: the sum never wraps to a small one.
C13_CooldownSaturates ==
    [][\A a \in Accounts :
          (/\ last_request_of[a] # None
           /\ unwrap(last_request_of[a]) + cooldown > BlockNumberMAX
           /\ block_number < BlockNumberMAX) =>
              /\ can_request(last_request_of, cooldown, block_number, a)
                     = "InCoolDown"
              /\ DripBy(a) =>
                     /\ result'.ret # Ok
                     /\ NothingHappened
                     /\ (active /\ AmountPlusOne < balance)
                            => result'.ret = "InCoolDown"]_vars

\* an account that dripped at block 5 was refused at block 5 under a
\* cooldown that takes the sum past the largest block number
C13_Witness ==
    /\ result.op = "drip" /\ result.ret = "InCoolDown"
    /\ last_request_of[result.caller] # None
    /\ unwrap(last_request_of[result.caller]) > 0
    /\ unwrap(last_request_of[result.caller]) + cooldown > BlockNumberMAX
    /\ block_number < BlockNumberMAX

\* C14 as stated, for the drip() that follows the set_drip_amount: after a
\* successful set_drip_amount(n) with n above the balance, drip() returns
\* NotEnoughFunds.
C14_Original ==
    [][(/\ result.op = "set_drip_amount" /\ result.ret = Ok
        /\ drip_amount > balance
        /\ result'.op = "drip") =>
           result'.ret = "NotEnoughFunds"]_vars

\* C14, amended: set_drip_amount(n) by the owner succeeds for every n and
\* stores it; while drip_amount is above the balance every drip() on an
\* active faucet returns NotEnoughFunds (NotActive on an inactive one) and
\* none succeeds, and only a payment into the contract or a set_drip_amount
\* ends that.
C14_TooLargeAmount ==
    [][/\ \A a \in Accounts :
              (result'.op = "set_drip_amount" /\ result'.caller = a
                    /\ owner = Some(a)) =>
                  /\ result'.ret = Ok
                  /\ result'.val = Some(drip_amount')
       /\ drip_amount > balance =>
              /\ result'.op = "drip" =>
                     /\ result'.ret = IF active THEN "NotEnoughFunds"
                                      ELSE "NotActive"
                     /\ NothingHappened
              /\ ~(drip_amount' > balance') =>
                     result'.op \in {"fund", "set_drip_amount"}]_vars

\* the owner has set a drip_amount above the balance of a running faucet
\* that had already paid a drip
C14_Witness ==
    /\ result.op = "set_drip_amount" /\ result.ret = Ok
    /\ result.val = Some(drip_amount)
    /\ drip_amount > balance /\ balance > 1
    /\ active /\ drips_ok > 0

\* C15: start_stop() by the owner always succeeds, negates active and
\* changes nothing else; the second of two successive successful
\* start_stop() calls restores the value active had before the first.
C15_Toggle ==
    [][/\ \A a \in Accounts :
              (result'.op = "start_stop" /\ result'.caller = a
                    /\ owner = Some(a)) =>
                  /\ result'.ret = Ok
                  /\ active' = ~active
                  /\ UNCHANGED <<cooldown, drip_amount, owner,
                                 last_request_of, env, history>>
       /\ (/\ result.op = "start_stop" /\ result.ret = Ok
           /\ result'.op = "start_stop" /\ result'.ret = Ok) =>
              active' = unwrap(result.val)]_vars

\* an active faucet was stopped and started again by two successive calls
C15_Witness ==
    /\ result.op = "start_stop" /\ result.ret = Ok
    /\ result.val = Some(FALSE) /\ active
    /\ drips_ok > 0

\* C17: transfer_ownership(new_owner) by the owner succeeds for every
\* new_owner, the owner itself included, and leaves owner = Some(new_owner);
\* an owner-gated call succeeds exactly when its caller is the owner, so
\* from then on for new_owner and not for a different previous owner; at
\* most one account passes ensure_owner.
C17_OwnershipMoves ==
    [][/\ \A a \in Accounts :
              (result'.op = "transfer_ownership" /\ result'.caller = a
                    /\ owner = Some(a)) =>
                  /\ result'.ret = Ok
                  /\ owner' = result'.val
                  /\ owner' # None
       /\ \A a \in Accounts :
              (result'.op \in OwnerGated /\ result'.caller = a) =>
                  (result'.ret = Ok <=> owner = Some(a))
       /\ Cardinality({a \in Accounts : ensure_owner(owner', a) = Ok}) <= 1
       /\ (/\ result.op = "transfer_ownership" /\ result.ret = Ok
           /\ result'.op \in OwnerGated) =>
              IF result'.caller = unwrap(result.val)
              THEN result'.ret = Ok
              ELSE result'.ret = "NotOwner"]_vars

\* the owner of a faucet that has run has transferred the ownership to
\* itself
C17_Witness ==
    /\ result.op = "transfer_ownership" /\ result.ret = Ok
    /\ result.val = Some(result.caller)
    /\ owner = Some(result.caller)
    /\ active /\ drips_ok > 0

\* C18: a successful set_cooldown changes only cooldown, set_drip_amount
\* only drip_amount, start_stop only active, remove_ownership and
\* transfer_ownership only owner; a successful drip changes only the
\* balance (with the transfer and the Drip that go with it) and the
\* caller's last_request_of entry; the accessors return the stored value
\* and change nothing.
C18_Frames ==
    [][/\ result'.ret = Ok =>
              /\ result'.op = "set_cooldown" =>
                     /\ cooldown' = unwrap(result'.val)
                     /\ UNCHANGED <<active, drip_amount, owner,
                                    last_request_of, env, history>>
              /\ result'.op = "set_drip_amount" =>
                     /\ drip_amount' = unwrap(result'.val)
                     /\ UNCHANGED <<active, cooldown, owner,
                                    last_request_of, env, history>>
              /\ result'.op = "start_stop" =>
                     UNCHANGED <<cooldown, drip_amount, owner,
                                 last_request_of, env, history>>
              /\ result'.op \in {"remove_ownership", "transfer_ownership"} =>
                     UNCHANGED <<active, cooldown, drip_amount,
                                 last_request_of, env, history>>
              /\ result'.op = "drip" =>
                     /\ UNCHANGED <<active, cooldown, drip_amount, owner,
                                    block_number>>
                     /\ \A a \in Accounts \ {result'.caller} :
                            last_request_of'[a] = last_request_of[a]
       /\ result'.op \in {"cooldown", "drip_amount", "is_active", "owner",
                          "last_request_of"} =>
              /\ result'.ret = Ok
              /\ NothingHappened
       /\ result'.op = "cooldown" => result'.val = Some(cooldown)
       /\ result'.op = "drip_amount" => result'.val = Some(drip_amount)
       /\ result'.op = "is_active" => result'.val = Some(active)
       /\ result'.op = "owner" => result'.val = Some(owner)
       /\ result'.op = "last_request_of" =>
              result'.val = Some(last_request_of[result'.caller])]_vars

\* the owner has changed drip_amount on a running faucet with a cooldown,
\* a recorded drip and a new owner
C18_Witness ==
    /\ result.op = "set_drip_amount" /\ result.ret = Ok
    /\ drip_amount = 0 /\ cooldown = 10 /\ active
    /\ owner = Some("bob") /\ last_request_of["alice"] = Some(5)
    /\ balance = 900

\* block from which an account that dripped at block b may drip again
\* under the cooldown cd
ReadyUnder(b, cd) ==
    IF b + cd > BlockNumberMAX THEN BlockNumberMAX ELSE b + cd

\* C19: can_request decides with the cooldown stored at the time of the
\* request: an account with a recorded last drip passes exactly when that
\* block plus the current cooldown (clamped) is at most the current block.
\* So a successful set_cooldown(0) leaves every account eligible, and a
\* set_cooldown that takes last drip + cooldown (clamped) past the current
\* block leaves an account that was eligible in cooldown.
C19_CurrentCooldownDecides ==
    [][\A a \in Accounts :
          last_request_of[a] # None =>
              LET last_drip == unwrap(last_request_of[a]) IN
              /\ (can_request(last_request_of, cooldown, block_number, a)
                      = Ok)
                     <=> (ReadyAt(last_drip) <= block_number)
              /\ (DripBy(a) /\ active /\ AmountPlusOne < balance) =>
                     (result'.ret = Ok
                          <=> ReadyAt(last_drip) <= block_number)
              /\ (result'.op = "set_cooldown" /\ result'.ret = Ok) =>
                     /\ cooldown' = 0 =>
                            can_request(last_request_of', cooldown',
                                        block_number', a) = Ok
                     /\ (/\ ReadyAt(last_drip) <= block_number
                         /\ ReadyUnder(last_drip, cooldown')
                                > block_number) =>
                            can_request(last_request_of', cooldown',
                                        block_number', a) = "InCoolDown"
          ]_vars

\* a cooldown was set under which the account that has dripped twice at
\* one block is in cooldown
C19_Witness ==
    /\ result.op = "set_cooldown" /\ result.ret = Ok
    /\ cooldown = 10 /\ block_number = 5 /\ drips_ok = 2
    /\ \E a \in Accounts :
           /\ last_request_of[a] = Some(0)
           /\ \A b \in Accounts \ {a} : last_request_of[b] = None
           /\ can_request(last_request_of, cooldown, block_number, a)
                  = "InCoolDown"

\* C20: while owner is None, which it is from a successful
\* remove_ownership() on, active, cooldown and drip_amount do not change;
\* if active is false then, every drip() returns NotActive and the balance
\* never goes down.  The balance goes down in a successful drip() only.
C20_LockedAfterRenounce ==
    [][/\ owner = None =>
              /\ UNCHANGED <<active, cooldown, drip_amount, owner>>
              /\ ~active =>
                     /\ result'.op = "drip" => result'.ret = "NotActive"
                     /\ balance' >= balance
                     /\ drips_ok' = drips_ok
       /\ balance' < balance =>
              result'.op = "drip" /\ result'.ret = Ok]_vars

\* an ownerless, stopped faucet that holds funds has refused a drip
C20_Witness ==
    /\ owner = None /\ ~active
    /\ result.op = "drip" /\ result.ret = "NotActive"
    /\ balance = 900 /\ drip_amount = 100 /\ block_number = 10

\* C16: InCoolDown passes by waiting.  Once drip() has returned InCoolDown
\* to an account under a cooldown cd, then, blocks being produced, a state
\* comes in which the three guards of drip let the account through, unless
\* the faucet was stopped, ran short of funds or got another cooldown.
\* (Under cooldown 0 no drip() returns InCoolDown.)
C16_CooldownEnds ==
    \A a \in Accounts : \A cd \in {c \in CooldownArgs : c > 0} :
        (/\ result.op = "drip" /\ result.caller = a
         /\ result.ret = "InCoolDown" /\ cooldown = cd)
        ~> (\/ drip_checks(active, drip_amount, balance, last_request_of,
                           cooldown, block_number, a) = Ok
            \/ ~active
            \/ AmountPlusOne >= balance
            \/ cooldown # cd)

\* a block step has brought an account that dripped at block 0 under
\* cooldown 10 to block 10, where the guards of drip let it through
C16_Witness ==
    /\ result.op = "next_block"
    /\ active /\ cooldown = 10 /\ block_number = 10
    /\ \E a \in Accounts :
           /\ last_request_of[a] = Some(0)
           /\ drip_checks(active, drip_amount, balance, last_request_of,
                          cooldown, block_number - 5, a) = "InCoolDown"
           /\ drip_checks(active, drip_amount, balance, last_request_of,
                          cooldown, block_number, a) = Ok

====
